---- MODULE Spec2Model ----
(***************************************************************************)
(* A model of the Electrum JSON-RPC client core (src/src/client.ts) and of  *)
(* the transport it drives (net.Socket / src/src/tls.ts).                   *)
(*                                                                          *)
(* One client instance.  The state is the client's fields (id, status,      *)
(* callback_message_queue, subscribe), the transport's session state, and   *)
(* observation variables recording what the caller and the wire have seen:  *)
(* the calls made and how their completion handlers were invoked, the       *)
(* writes put on the transport, the promises returned by connect(), and     *)
(* the effects of the most recent step.                                     *)
(***************************************************************************)
EXTENDS Integers, Sequences, FiniteSets, TLC

VARIABLES
    id,         \* Client.id : the request id counter
    status,     \* Client.status : 0 = Disconnected, 1 = Connected
    queue,      \* Client.callback_message_queue : key -> index into calls
    listeners,  \* Client.subscribe : method name -> sequence of listener ids
    sock,       \* the transport session: "idle", "connecting", "open", "closed"
    handshakeOk,\* the transport has reported a successful handshake for the current session
    closeEvents,\* 'close' events the transport has scheduled and not yet delivered
    calls,      \* the accepted request/requestBatch calls, in call order
    wire,       \* the conn.write calls made, in order
    last        \* the effects of the most recent step

vars == <<id, status, queue, listeners, sock, handshakeOk, closeEvents,
          calls, wire, last>>

----------------------------------------------------------------------------
(* Bounds of the model *)

MaxId == 2          \* the id counter is not advanced beyond this
MaxCalls == 2       \* accepted request/requestBatch calls
MaxListeners == 2   \* listeners registered on the notification emitter
MaxCloseEvents == 1 \* undelivered transport close events
MaxBatch == 2       \* parameters of one requestBatch call

----------------------------------------------------------------------------
(* JSON values, by the properties the code looks at *)

\* "absent" is a missing field (undefined); the others are JSON values.
Falsy == {"absent", "null", "zero", "false", "empty"}

\* JavaScript truthiness, as used by `if (msg.error)` and `msg.result || msg`
Truthy(v) == v \notin Falsy

Results == {"absent", "null", "zero", "R1"}
Errors == {"absent", "null", "E1"}
Params == {"H1", "H2"}
Methods == {"blockchain.headers.subscribe", "error"}

\* An id field: NoId is an absent or null id, 0 is the number 0.
NoId == -1

NoMsg == [kind |-> "none", id |-> NoId, method |-> "absent", params |-> "absent",
          result |-> "absent", error |-> "absent", elems |-> <<>>]

\* A document that is not JSON
BadDoc == [NoMsg EXCEPT !.kind = "bad"]

\* The ids a server may put in a message when the client has issued ids 1 .. k:
\* 0, every issued id, and one id that was never issued
KnownIds(k) == 0 .. (IF k < MaxId THEN k + 1 ELSE MaxId)

\* The result and error fields of a response
Bodies ==
    {<<r, "absent">> : r \in Results} \cup {<<"absent", "E1">>, <<"null", "E1">>, <<"R1", "null">>}

\* Responses: an object with an id
ResponseMsgs(k) ==
    {[NoMsg EXCEPT !.kind = "obj", !.id = i, !.result = b[1], !.error = b[2]] :
        i \in KnownIds(k), b \in Bodies}

\* Notifications: an object without an id
NotificationMsgs ==
    {[NoMsg EXCEPT !.kind = "obj", !.method = m, !.params = p] :
        m \in Methods \cup {"absent"}, p \in Params}

\* An element of an inbound array
Elem(i, e) == [id |-> i, error |-> e]

\* Arrays of at most two elements, over every id a message may carry
ShortArrays(k) ==
    LET E == {Elem(i, "absent") : i \in {NoId} \cup KnownIds(k)}
    IN  {<<>>} \cup {<<a>> : a \in E} \cup {<<a, b>> : a \in E, b \in E}

\* The answers a server may give to a batch that was sent with the ids `ids`:
\* one element per id, in any order, any subset of them carrying an error
Answers(ids) ==
    LET n == Len(ids)
    IN  {[i \in 1 .. n |-> Elem(ids[p[i]], IF i \in errs THEN "E1" ELSE "absent")] :
            p \in Permutations(1 .. n), errs \in SUBSET (1 .. n)}

ArrayMsgs(k, cs) ==
    {[NoMsg EXCEPT !.kind = "arr", !.elems = a] :
        a \in ShortArrays(k) \cup
              UNION {Answers(cs[c].ids) : c \in {x \in DOMAIN cs : cs[x].kind = "batch"}}}

\* The documents the transport may deliver when ids 1 .. k have been issued
\* by the calls cs
Messages(k, cs) ==
    {BadDoc} \cup ResponseMsgs(k) \cup NotificationMsgs \cup ArrayMsgs(k, cs)

----------------------------------------------------------------------------
(* The registry: a Map from id to completion handler *)

Has(q, k) == k \in DOMAIN q

MapSet(q, k, v) == [x \in (DOMAIN q) \cup {k} |-> IF x = k THEN v ELSE q[x]]

MapDelete(q, k) == [x \in (DOMAIN q) \ {k} |-> q[x]]

EmptyMap == [x \in {} |-> 0]

----------------------------------------------------------------------------
(* Request texts: helper.makeRequest and the template strings of request and
   requestBatch.  A text is a sequence of JSON tokens. *)

Punct(c) == [kind |-> "punct", text |-> c, num |-> 0]
Str(s) == [kind |-> "string", text |-> s, num |-> 0]
Num(n) == [kind |-> "number", text |-> "", num |-> n]
Lit(s) == [kind |-> "literal", text |-> s, num |-> 0]

\* The line feed that ends a write
Newline == [kind |-> "newline", text |-> "LF", num |-> 0]

\* An argument that was not passed (undefined)
NoParam == [kind |-> "absent", text |-> "", num |-> 0]

\* The arguments of a call of request or requestBatch
NoArgs == [method |-> "", params |-> <<>>, secondParam |-> NoParam]

\* The method names and parameter values callers pass
CallMethods == {"testMethod", "server.ping"}
ParamValues == {Str("stringParam"), Num(1), Lit("true")}

\* Parameter lists of request: at most two values
ParamLists ==
    {<<>>} \cup {<<a>> : a \in ParamValues} \cup {<<a, b>> : a \in ParamValues, b \in ParamValues}

\* The texts xs[1], xs[2], ... with sep between neighbours (Array.prototype.join)
RECURSIVE Join(_, _)
Join(xs, sep) ==
    IF xs = <<>> THEN <<>>
    ELSE IF Len(xs) = 1 THEN xs[1]
    ELSE xs[1] \o <<sep>> \o Join(Tail(xs), sep)

\* JSON.stringify of an array of scalars
StringifyArray(vs) ==
    <<Punct("[")>> \o Join([i \in DOMAIN vs |-> <<vs[i]>>], Punct(",")) \o <<Punct("]")>>

\* Faulty variant: the id is written first, as many JSON-RPC libraries do
makeRequestIdFirst(method, params, k) ==
    <<Punct("{"), Str("id"), Punct(":"), Num(k), Punct(","),
      Str("jsonrpc"), Punct(":"), Str("2.0"), Punct(","),
      Str("method"), Punct(":"), Str(method), Punct(","),
      Str("params"), Punct(":")>> \o StringifyArray(params) \o <<Punct("}")>>

\* helper.makeRequest: JSON.stringify({ jsonrpc: '2.0', method, params, id })
makeRequest(method, params, k) ==
    <<Punct("{"), Str("jsonrpc"), Punct(":"), Str("2.0"), Punct(","),
      Str("method"), Punct(":"), Str(method), Punct(","),
      Str("params"), Punct(":")>> \o StringifyArray(params) \o
    <<Punct(","), Str("id"), Punct(":"), Num(k), Punct("}")>>

\* Faulty variant: the write is not terminated
Unterminated(content) == content

\* `${content}\n`: what request and requestBatch hand to conn.write
Terminated(content) == content \o <<Newline>>

\* `secondParam == null`: the second parameter is undefined or null
IsNullish(v) == v = NoParam \/ v = Lit("null")

\* The params of one member of a batch: [param] or [param, secondParam]
MemberParams(param, secondParam) ==
    IF IsNullish(secondParam) THEN <<param>> ELSE <<param, secondParam>>

\* `[${contents.join(',')}]` over the members built by the loop of requestBatch,
\* which take the ids after k
BatchContent(method, params, secondParam, k) ==
    <<Punct("[")>> \o
    Join([i \in DOMAIN params |->
            makeRequest(method, MemberParams(params[i], secondParam), k + i)],
         Punct(",")) \o
    <<Punct("]")>>

----------------------------------------------------------------------------
(* Observation records *)

NoEffect == [op |-> "init", msg |-> NoMsg, n |-> 0, result |-> "none",
             transport |-> <<>>, fired |-> <<>>, delivered |-> <<>>,
             hook |-> FALSE, thrown |-> "none",
             chunk |-> <<>>, dispatched |-> 0, sent |-> <<>>, args |-> NoArgs]

\* One invocation of a completion handler: callback(err) or callback(null, value).
\* whole = TRUE says the value is the inbound message itself.
Invocation(c, err, val, whole) ==
    [call |-> c, err |-> err, val |-> val, whole |-> whole]

Init ==
    /\ id = 0
    /\ status = 0
    /\ queue = EmptyMap
    /\ listeners = [m \in Methods |-> <<>>]
    /\ sock = "idle"
    /\ handshakeOk = FALSE
    /\ closeEvents = 0
    /\ calls = <<>>
    /\ wire = <<>>
    /\ last = NoEffect

----------------------------------------------------------------------------
(* Client.request and Client.requestBatch *)

\* Faulty variant: the state check is missing
RequestRejectsNever(st) == FALSE

\* The state check that opens request and requestBatch
RequestRejects(st) == st = 0

\* Faulty variant: the counter is read but not advanced
NextIdStuck(k) == k

\* `++this.id`, once per issued request
NextId(k) == k + 1

\* The ids the loop of requestBatch assigns to n parameters, starting after k
RECURSIVE BatchIds(_, _)
BatchIds(k, n) == IF n = 0 THEN <<>> ELSE <<NextId(k)>> \o BatchIds(NextId(k), n - 1)

\* The value of this.id after ids have been assigned
LastId(k, ids) == IF ids = <<>> THEN k ELSE ids[Len(ids)]

\* The key a batch's handler is registered under: this.id after the loop
BatchKey(k, ids) == LastId(k, ids)

NewCall(kind, ids, key) == [kind |-> kind, ids |-> ids, key |-> key, invoked |-> 0]

\* request(method, params).  observed says whether last records the arguments
\* and the text written.
RequestOf(method, params, observed) ==
    IF RequestRejects(status)
    THEN /\ last' = [NoEffect EXCEPT !.op = "request", !.result = "lost"]
         /\ UNCHANGED <<id, status, queue, listeners, sock, handshakeOk,
                        closeEvents, calls, wire>>
    ELSE /\ id < MaxId
         /\ Len(calls) < MaxCalls
         /\ LET k == NextId(id)
                c == Len(calls) + 1
                content == makeRequest(method, params, k)
            IN  /\ id' = k
                /\ calls' = Append(calls, NewCall("single", <<k>>, k))
                /\ queue' = MapSet(queue, k, c)
                /\ wire' = Append(wire, [batch |-> FALSE, ids |-> <<k>>])
                /\ last' = [NoEffect EXCEPT
                                !.op = "request", !.n = 1,
                                !.result = "pending",
                                !.transport = <<"write">>,
                                !.sent = IF observed THEN Terminated(content) ELSE <<>>,
                                !.args = IF observed
                                         THEN [method |-> method, params |-> params,
                                               secondParam |-> NoParam]
                                         ELSE NoArgs]
         /\ UNCHANGED <<status, listeners, sock, handshakeOk, closeEvents>>

Request == RequestOf("testMethod", <<>>, FALSE)

\* requestBatch(method, params, secondParam)
RequestBatchOf(method, params, secondParam, observed) ==
    IF RequestRejects(status)
    THEN /\ last' = [NoEffect EXCEPT !.op = "requestBatch", !.n = Len(params),
                                     !.result = "lost"]
         /\ UNCHANGED <<id, status, queue, listeners, sock, handshakeOk,
                        closeEvents, calls, wire>>
    ELSE /\ id + Len(params) <= MaxId
         /\ Len(calls) < MaxCalls
         /\ LET ids == BatchIds(id, Len(params))
                key == BatchKey(id, ids)
                c == Len(calls) + 1
                content == BatchContent(method, params, secondParam, id)
            IN  /\ id' = LastId(id, ids)
                /\ calls' = Append(calls, NewCall("batch", ids, key))
                /\ queue' = MapSet(queue, key, c)
                /\ wire' = Append(wire, [batch |-> TRUE, ids |-> ids])
                /\ last' = [NoEffect EXCEPT
                                !.op = "requestBatch", !.n = Len(params),
                                !.result = "pending",
                                !.transport = <<"write">>,
                                !.sent = IF observed THEN Terminated(content) ELSE <<>>,
                                !.args = IF observed
                                         THEN [method |-> method, params |-> params,
                                               secondParam |-> secondParam]
                                         ELSE NoArgs]
         /\ UNCHANGED <<status, listeners, sock, handshakeOk, closeEvents>>

\* A batch of n parameters
RequestBatch(n) ==
    RequestBatchOf("testMethod", [i \in 1 .. n |-> Num(1)], NoParam, FALSE)

----------------------------------------------------------------------------
(* Client.connect, Client.connectSocket, Client.close *)

\* connect() returns an already resolved promise when the state is Connected
ConnectIsNoop(st) == st = 1

\* Faulty variant: connect() leaves the state to the handshake callback
ConnectLate ==
    /\ IF ConnectIsNoop(status)
       THEN /\ last' = [NoEffect EXCEPT !.op = "connect", !.result = "resolved"]
            /\ UNCHANGED <<status, sock, handshakeOk>>
       ELSE /\ status' = status
            /\ sock' = "connecting"
            /\ handshakeOk' = FALSE
            /\ last' = [NoEffect EXCEPT !.op = "connect", !.result = "pending",
                                        !.transport = <<"connect">>]
    /\ UNCHANGED <<id, queue, listeners, closeEvents, calls, wire>>

Connect ==
    /\ IF ConnectIsNoop(status)
       THEN /\ last' = [NoEffect EXCEPT !.op = "connect", !.result = "resolved"]
            /\ UNCHANGED <<status, sock, handshakeOk>>
       ELSE /\ status' = 1
            /\ sock' = "connecting"
            /\ handshakeOk' = FALSE
            /\ last' = [NoEffect EXCEPT !.op = "connect", !.result = "pending",
                                        !.transport = <<"connect">>]
    /\ UNCHANGED <<id, queue, listeners, closeEvents, calls, wire>>

\* close() returns at once when the state is Disconnected
CloseIsNoop(st) == st = 0

\* A live transport session is torn down by destroy() and then reports 'close'
Live(s) == s \in {"connecting", "open"}

\* Faulty variant: close() empties the registry itself, without failing the calls
CloseDrops ==
    IF CloseIsNoop(status)
    THEN /\ last' = [NoEffect EXCEPT !.op = "close"]
         /\ UNCHANGED <<id, status, queue, listeners, sock, handshakeOk,
                        closeEvents, calls, wire>>
    ELSE /\ Live(sock) => closeEvents < MaxCloseEvents
         /\ status' = 0
         /\ sock' = "closed"
         /\ closeEvents' = IF Live(sock) THEN closeEvents + 1 ELSE closeEvents
         /\ queue' = EmptyMap
         /\ last' = [NoEffect EXCEPT !.op = "close", !.transport = <<"end", "destroy">>]
         /\ UNCHANGED <<id, listeners, handshakeOk, calls, wire>>

Close ==
    IF CloseIsNoop(status)
    THEN /\ last' = [NoEffect EXCEPT !.op = "close"]
         /\ UNCHANGED <<id, status, queue, listeners, sock, handshakeOk,
                        closeEvents, calls, wire>>
    ELSE /\ Live(sock) => closeEvents < MaxCloseEvents
         /\ status' = 0
         /\ sock' = "closed"
         /\ closeEvents' = IF Live(sock) THEN closeEvents + 1 ELSE closeEvents
         /\ last' = [NoEffect EXCEPT !.op = "close", !.transport = <<"end", "destroy">>]
         /\ UNCHANGED <<id, queue, listeners, handshakeOk, calls, wire>>

\* The transport reports that its handshake succeeded: the callback
\* connectSocket passed to conn.connect resolves the pending promise
OnConnect ==
    /\ sock = "connecting"
    /\ sock' = "open"
    /\ handshakeOk' = TRUE
    /\ last' = [NoEffect EXCEPT !.op = "connected",
                                !.result = "resolved"]
    /\ UNCHANGED <<id, status, queue, listeners, closeEvents, calls, wire>>

\* Faulty variant: the error event tears the client down as the close event does
OnErrorTearsDown ==
    /\ Live(sock)
    /\ closeEvents < MaxCloseEvents
    /\ sock' = "closed"
    /\ closeEvents' = closeEvents + 1
    /\ status' = 0
    /\ queue' = EmptyMap
    /\ last' = [NoEffect EXCEPT !.op = "error", !.hook = TRUE,
                                !.result = IF sock = "connecting" THEN "rejected" ELSE "none"]
    /\ UNCHANGED <<id, listeners, handshakeOk, calls, wire>>

\* The transport reports an error: Client.onError and connectSocket's errorHandler.
\* The failed session is destroyed by the transport and reports 'close' later.
OnError ==
    /\ Live(sock)
    /\ closeEvents < MaxCloseEvents
    /\ sock' = "closed"
    /\ closeEvents' = closeEvents + 1
    /\ last' = [NoEffect EXCEPT !.op = "error", !.hook = TRUE,
                                !.result = IF sock = "connecting" THEN "rejected" ELSE "none"]
    /\ UNCHANGED <<id, status, queue, listeners, handshakeOk, calls, wire>>

----------------------------------------------------------------------------
(* Completion handlers *)

\* helper.createPromiseResult / createPromiseResultBatch: (err, result) =>
\* err ? reject(err) : resolve(result).  The invocation is recorded on the call.
Invoke(cs, inv) ==
    [cs EXCEPT ![inv.call].invoked = @ + 1]

RECURSIVE InvokeAll(_, _)
InvokeAll(cs, invs) ==
    IF invs = <<>> THEN cs ELSE InvokeAll(Invoke(cs, Head(invs)), Tail(invs))

\* The promise of call c: settled by the first invocation of its handler
Settled(c) == calls[c].invoked > 0

----------------------------------------------------------------------------
(* Client.onClose *)

\* The keys of a Map in iteration order (insertion order: keys are inserted
\* in non-decreasing order and a re-inserted key keeps or regains the last place)
RECURSIVE KeysFrom(_, _)
KeysFrom(q, k) ==
    IF k > MaxId THEN <<>>
    ELSE (IF Has(q, k) THEN <<k>> ELSE <<>>) \o KeysFrom(q, k + 1)

Entries(q) == KeysFrom(q, 0)

\* Faulty variant: deleting while iterating ends the loop after the first entry
FailFirst(q) ==
    LET ks == Entries(q)
    IN  IF ks = <<>> THEN <<>> ELSE <<Invocation(q[ks[1]], "closed", "absent", FALSE)>>

\* The loop of onClose: fn(new Error('close connect')) for every entry
FailAll(q) ==
    LET ks == Entries(q)
    IN  [i \in 1 .. Len(ks) |-> Invocation(q[ks[i]], "closed", "absent", FALSE)]

\* What the loop of onClose leaves in the registry
Drained(q) == EmptyMap

OnClose ==
    /\ closeEvents > 0
    /\ closeEvents' = closeEvents - 1
    /\ status' = 0
    /\ calls' = InvokeAll(calls, FailAll(queue))
    /\ queue' = Drained(queue)
    /\ last' = [NoEffect EXCEPT !.op = "closeEvent", !.fired = FailAll(queue)]
    /\ UNCHANGED <<id, listeners, sock, handshakeOk, wire>>

----------------------------------------------------------------------------
(* Client.response *)

\* An id the code treats as present: `m.id`, `msg[0].id` as a condition
TruthyId(k) == k >= 1

\* `!msg.id && msg[0] && msg[0].id`: the message is scanned as a batch response
ScanBranch(msg) ==
    /\ ~TruthyId(msg.id)
    /\ msg.elems # <<>>
    /\ TruthyId(msg.elems[1].id)

\* No handler located (callback stays undefined)
NoCallback == 0

\* Faulty variant: only the first element of the array is looked at
ScanFirstOnly(elems, q, cb) ==
    IF elems # <<>> /\ TruthyId(elems[1].id) /\ Has(q, elems[1].id)
    THEN [queue |-> MapDelete(q, elems[1].id), callback |-> q[elems[1].id]]
    ELSE [queue |-> q, callback |-> cb]

\* The scan loop over the elements of a batch response: every element whose id
\* is a registered key overwrites callback and removes the entry
RECURSIVE Scan(_, _, _)
Scan(elems, q, cb) ==
    IF elems = <<>> THEN [queue |-> q, callback |-> cb]
    ELSE LET m == Head(elems)
         IN  IF TruthyId(m.id) /\ Has(q, m.id)
             THEN Scan(Tail(elems), MapDelete(q, m.id), q[m.id])
             ELSE Scan(Tail(elems), q, cb)

\* The oldest registered handler, if any
Oldest(q) == IF DOMAIN q = {} THEN NoCallback
             ELSE q[CHOOSE k \in DOMAIN q : \A j \in DOMAIN q : k <= j]

\* Faulty variant: responses are matched to calls in FIFO order, not by id
LookupFifo(msg, q) == [queue |-> q, callback |-> Oldest(q)]

\* Faulty variant: a response that matches no call is handed to the oldest pending call
LookupOrOldest(msg, q) ==
    IF ScanBranch(msg) THEN Scan(msg.elems, q, Oldest(q))
    ELSE [queue |-> q, callback |-> IF Has(q, msg.id) THEN q[msg.id] ELSE Oldest(q)]

\* The lookup that opens response(): the located handler and the registry after it
Lookup(msg, q) ==
    IF ScanBranch(msg)
    THEN Scan(msg.elems, q, NoCallback)
    ELSE [queue |-> q, callback |-> IF Has(q, msg.id) THEN q[msg.id] ELSE NoCallback]

\* Faulty variant: the error field is not looked at
IsErrorResponseNever(msg) == FALSE

\* `if (msg.error)`: the handler is called with the error
IsErrorResponse(msg) == Truthy(msg.error)

\* `msg.result || msg`: the success payload
UsesResult(msg) == Truthy(msg.result)

\* The call the located handler receives
Completion(msg, c) ==
    IF IsErrorResponse(msg) THEN Invocation(c, msg.error, "absent", FALSE)
    ELSE IF UsesResult(msg) THEN Invocation(c, "absent", msg.result, FALSE)
    ELSE Invocation(c, "absent", "absent", TRUE)

\* response(msg): the registry, the calls and the effects after it
Response(msg, q, cs) ==
    LET found == Lookup(msg, q)
    IN  IF found.callback # NoCallback
        THEN [queue |-> MapDelete(found.queue, msg.id),
              calls |-> Invoke(cs, Completion(msg, found.callback)),
              fired |-> <<Completion(msg, found.callback)>>,
              delivered |-> <<>>,
              thrown |-> "none"]
        ELSE [queue |-> found.queue, calls |-> cs, fired |-> <<>>,
              delivered |-> <<>>, thrown |-> "ProtocolViolation"]

----------------------------------------------------------------------------
(* Client.onMessage *)

\* `msg.id == null`: the id is absent or null
IsNotification(msg) == msg.id = NoId

ListenersOf(ls, m) == IF m \in DOMAIN ls THEN ls[m] ELSE <<>>

\* EventEmitter.emit throws when 'error' is emitted and nobody listens for it
EmitThrows(ls, m) == m = "error" /\ ListenersOf(ls, m) = <<>>

\* this.subscribe.emit(msg.method, msg.params): the listeners of that event
\* name, in registration order, each called with params
Emit(ls, m, p) ==
    LET to == ListenersOf(ls, m)
    IN  [i \in 1 .. Len(to) |-> [listener |-> to[i], params |-> p]]

\* onMessage(body): JSON.parse, then the classification of the parsed value
Dispatch(msg, q, cs, ls) ==
    IF msg.kind = "bad"
    THEN [queue |-> q, calls |-> cs, fired |-> <<>>, delivered |-> <<>>,
          thrown |-> "SyntaxError"]
    ELSE IF msg.kind = "arr" THEN Response(msg, q, cs)
    ELSE IF IsNotification(msg)
    THEN [queue |-> q, calls |-> cs, fired |-> <<>>,
          delivered |-> Emit(ls, msg.method, msg.params),
          thrown |-> IF EmitThrows(ls, msg.method) THEN "UnhandledError" ELSE "none"]
    ELSE Response(msg, q, cs)

\* What last keeps of an inbound message when the step is not observed in full
Kind(msg) == [NoMsg EXCEPT !.kind = msg.kind]

\* The transport's 'data' event carrying one document: onRecv, the message
\* parser and onMessage.  observed says whether last records the message
\* itself or only its kind.
OnData(msg, observed) ==
    /\ sock = "open"
    /\ LET r == Dispatch(msg, queue, calls, listeners)
       IN  /\ queue' = r.queue
           /\ calls' = r.calls
           /\ last' = [NoEffect EXCEPT !.op = "data",
                                       !.msg = IF observed THEN msg ELSE Kind(msg),
                                       !.fired = r.fired,
                                       !.delivered = r.delivered, !.thrown = r.thrown]
    /\ UNCHANGED <<id, status, listeners, sock, handshakeOk, closeEvents, wire>>

----------------------------------------------------------------------------
(* The 'data' handler on a chunk that carries several documents *)

\* The chunks the transport may deliver when ids 1 .. k have been issued: one
\* or two newline-terminated documents, each a response or not JSON at all
Chunks(k) ==
    LET D == {BadDoc} \cup {m \in ResponseMsgs(k) : Truthy(m.result) \/ Truthy(m.error)}
    IN  {<<a>> : a \in D} \cup {<<a, b>> : a \in D, b \in D}

\* MessageParser.run: the complete document bodies of the chunk are handed to
\* onMessage one after the other.  Nothing between the transport's 'data'
\* event and onMessage catches an exception, so a throwing document ends the
\* run: the bodies after it are not handed over.
RECURSIVE RunParser(_, _, _, _)
RunParser(docs, q, cs, ls) ==
    IF docs = <<>>
    THEN [queue |-> q, calls |-> cs, fired |-> <<>>, delivered |-> <<>>,
          thrown |-> "none", dispatched |-> 0]
    ELSE LET r == Dispatch(Head(docs), q, cs, ls)
         IN  IF r.thrown # "none"
             THEN [queue |-> r.queue, calls |-> r.calls, fired |-> r.fired,
                   delivered |-> r.delivered, thrown |-> r.thrown, dispatched |-> 1]
             ELSE LET rest == RunParser(Tail(docs), r.queue, r.calls, ls)
                  IN  [queue |-> rest.queue, calls |-> rest.calls,
                       fired |-> r.fired \o rest.fired,
                       delivered |-> r.delivered \o rest.delivered,
                       thrown |-> rest.thrown,
                       dispatched |-> rest.dispatched + 1]

\* The transport's 'data' event carrying the documents docs in one chunk
OnChunk(docs) ==
    /\ sock = "open"
    /\ LET r == RunParser(docs, queue, calls, listeners)
       IN  /\ queue' = r.queue
           /\ calls' = r.calls
           /\ last' = [NoEffect EXCEPT !.op = "chunk", !.chunk = docs,
                                       !.dispatched = r.dispatched,
                                       !.fired = r.fired,
                                       !.delivered = r.delivered, !.thrown = r.thrown]
    /\ UNCHANGED <<id, status, listeners, sock, handshakeOk, closeEvents, wire>>

----------------------------------------------------------------------------
(* Listeners on Client.subscribe *)

RECURSIVE CountListeners(_, _)
CountListeners(ls, ms) ==
    IF ms = {} THEN 0
    ELSE LET m == CHOOSE x \in ms : TRUE
         IN  Len(ls[m]) + CountListeners(ls, ms \ {m})

\* this.subscribe.on(method, listener), as the subclasses of Client do
Subscribe(m) ==
    /\ CountListeners(listeners, Methods) < MaxListeners
    /\ listeners' = [listeners EXCEPT
                        ![m] = Append(@, CountListeners(listeners, Methods) + 1)]
    /\ last' = [NoEffect EXCEPT !.op = "subscribe"]
    /\ UNCHANGED <<id, status, queue, sock, handshakeOk, closeEvents,
                   calls, wire>>

----------------------------------------------------------------------------

(* The client over its whole life cycle *)

Next ==
    \/ Request
    \/ \E n \in 0 .. MaxBatch : RequestBatch(n)
    \/ Connect
    \/ Close
    \/ OnConnect
    \/ OnError
    \/ OnClose
    \/ \E msg \in Messages(id, calls) : OnData(msg, FALSE)

Spec == Init /\ [][Next]_vars

(* The whole life cycle, with the transport's close events delivered: a 'close'
   event the transport has scheduled is emitted by the event loop, so OnClose
   does not stay enabled for ever without being taken *)

SpecLive == Init /\ [][Next]_vars /\ WF_vars(OnClose)

(* The dispatch of inbound messages on a connected client, every message observed *)

NextDispatch ==
    \/ Request
    \/ \E n \in 0 .. MaxBatch : RequestBatch(n)
    \/ Connect
    \/ OnConnect
    \/ \E msg \in Messages(id, calls) : OnData(msg, TRUE)

SpecDispatch == Init /\ [][NextDispatch]_vars

(* Notifications and their listeners *)

NextNotify ==
    \/ Request
    \/ Connect
    \/ OnConnect
    \/ \E m \in Methods : Subscribe(m)
    \/ \E msg \in NotificationMsgs \cup ResponseMsgs(id) : OnData(msg, TRUE)

SpecNotify == Init /\ [][NextNotify]_vars

(* Chunks of several documents on a connected client *)

NextFraming ==
    \/ Request
    \/ Connect
    \/ OnConnect
    \/ \E docs \in Chunks(id) : OnChunk(docs)

SpecFraming == Init /\ [][NextFraming]_vars

(* The texts request and requestBatch write *)

\* Parameter lists of requestBatch: at most MaxBatch values
BatchParamLists == UNION {[1 .. n -> ParamValues] : n \in 0 .. MaxBatch}

NextCodec ==
    \/ Connect
    \/ OnConnect
    \/ \E m \in CallMethods, ps \in ParamLists : RequestOf(m, ps, TRUE)
    \/ \E m \in CallMethods, ps \in BatchParamLists,
          second \in {NoParam, Lit("null"), Num(1)} :
            RequestBatchOf(m, ps, second, TRUE)

SpecCodec == Init /\ [][NextCodec]_vars

----------------------------------------------------------------------------
(* Properties *)

\* The step just taken is a call of request or requestBatch
IsRequestStep == last'.op \in {"request", "requestBatch"}

\* The effects e are those of a request or requestBatch that was accepted
IsAcceptedCall(e) == e.op \in {"request", "requestBatch"} /\ e.result = "pending"

\* The step just taken is the dispatch of an inbound document
IsDataStep == last'.op = "data"

\* C1: whenever the state is Disconnected, request and requestBatch reject with
\* the 'connection lost' error and have no other effect: nothing is written to
\* the transport, the id counter is not advanced and the registry is unchanged.
C1_DisconnectedRejects ==
    [][(status = 0 /\ IsRequestStep) =>
            /\ last'.result = "lost"
            /\ last'.transport = <<>>
            /\ wire' = wire
            /\ id' = id
            /\ queue' = queue
            /\ calls' = calls
            /\ status' = status]_vars

\* A batch was rejected while Disconnected, with calls of the closed session
\* still in the registry
C1_Witness ==
    /\ status = 0
    /\ last.op = "requestBatch"
    /\ last.n = 2
    /\ last.result = "lost"
    /\ queue # EmptyMap

\* The ids assigned so far, in the order of their assignment
RECURSIVE IdsOf(_)
IdsOf(cs) == IF cs = <<>> THEN <<>> ELSE Head(cs).ids \o IdsOf(Tail(cs))

\* The ids put on the wire so far, in order
RECURSIVE IdsOn(_)
IdsOn(w) == IF w = <<>> THEN <<>> ELSE Head(w).ids \o IdsOn(Tail(w))

\* C2: over any interleaving of connect, close, request, requestBatch and
\* transport events, the ids assigned to accepted requests and batch members
\* are 1, 2, 3, ... in order, without gap or reuse, and the counter is the last
\* id assigned (nothing else moves it).
C2_IdsConsecutive ==
    /\ IdsOf(calls) = [i \in 1 .. id |-> i]
    /\ IdsOn(wire) = IdsOf(calls)

\* A batch member received the last id during the handshake of a reconnect,
\* after the first call was failed by the close of the earlier session
C2_Witness ==
    /\ id = MaxId
    /\ Len(calls) = 2
    /\ calls[1].kind = "single"
    /\ calls[1].invoked = 1
    /\ calls[2].kind = "batch"
    /\ sock = "connecting"
    /\ last.op = "requestBatch"
    /\ last.result = "pending"

\* A single request is pending under key k: the registry holds its handler
PendingSingle(k) ==
    /\ Has(queue, k)
    /\ calls[queue[k]].kind = "single"
    /\ calls[queue[k]].invoked = 0

\* Every call other than c has the same number of completions after the step
OthersUntouched(c) ==
    \A x \in DOMAIN calls : x # c => calls'[x] = calls[x]

\* C3: if a single request is pending under id k, the response {id: k, result: R}
\* without an error field resolves that call with exactly R, for every JSON
\* value R (0, false, null and "" included), invokes its completion exactly
\* once and removes entry k.
C3_ResolvesWithResult ==
    [][LET m == last'.msg
       IN  (/\ IsDataStep
            /\ m.kind = "obj"
            /\ m.error = "absent"
            /\ m.result # "absent"
            /\ PendingSingle(m.id)) =>
                /\ last'.fired = <<Invocation(queue[m.id], "absent", m.result, FALSE)>>
                /\ calls'[queue[m.id]].invoked = 1
                /\ ~Has(queue', m.id)]_vars

\* The ids of the elements of an inbound array
ElemIds(m) == {m.elems[i].id : i \in DOMAIN m.elems}

\* The message is a response that matches no pending call of the registry q
Unmatched(m, q) ==
    \/ m.kind = "obj" /\ m.id # NoId /\ ~Has(q, m.id)
    \/ m.kind = "arr" /\ ElemIds(m) \cap DOMAIN q = {}

\* C4: an inbound response (a single one, or an array none of whose element
\* ids is registered) that matches no pending call raises the protocol
\* violation, invokes no completion handler and leaves the registry as it was.
C4_UnmatchedIsViolation ==
    [][(IsDataStep /\ Unmatched(last'.msg, queue)) =>
            /\ last'.thrown = "ProtocolViolation"
            /\ last'.fired = <<>>
            /\ queue' = queue
            /\ calls' = calls]_vars

\* A two-element array of unregistered ids was refused while calls were pending
C4_Witness ==
    /\ last.op = "data"
    /\ last.msg.kind = "arr"
    /\ Len(last.msg.elems) = 2
    /\ last.msg.elems[1].id >= 1
    /\ last.thrown = "ProtocolViolation"
    /\ queue # EmptyMap

\* Batch call c is pending: the registry holds its handler under its last id
PendingBatch(c) ==
    /\ calls[c].kind = "batch"
    /\ calls[c].ids # <<>>
    /\ Has(queue, calls[c].key)
    /\ queue[calls[c].key] = c
    /\ calls[c].invoked = 0

\* C5: an accepted requestBatch with n >= 1 parameters takes the n ids after the
\* counter, makes one transport write and files one registry entry under the
\* last of these ids; a response array holding these n ids in any order, any
\* subset of its elements carrying an error, invokes the batch's handler
\* exactly once with the entire array as the success payload and removes the
\* batch's registry entry.
C5_BatchCorrelation ==
    [][/\ (last'.op = "requestBatch" /\ last'.result = "pending" /\ last'.n >= 1) =>
            LET n == last'.n
                c == Len(calls) + 1
            IN  /\ calls' = Append(calls, NewCall("batch", [i \in 1 .. n |-> id + i], id + n))
                /\ wire' = Append(wire, [batch |-> TRUE, ids |-> [i \in 1 .. n |-> id + i]])
                /\ last'.transport = <<"write">>
                /\ DOMAIN queue' = DOMAIN queue \cup {id + n}
                /\ queue'[id + n] = c
                /\ \A k \in DOMAIN queue \ {id + n} : queue'[k] = queue[k]
       /\ \A c \in DOMAIN calls :
            (/\ IsDataStep
             /\ last'.msg.kind = "arr"
             /\ PendingBatch(c)
             /\ last'.msg.elems \in Answers(calls[c].ids)) =>
                /\ last'.fired = <<Invocation(c, "absent", "absent", TRUE)>>
                /\ last'.thrown = "none"
                /\ calls'[c].invoked = 1
                /\ OthersUntouched(c)
                /\ ~Has(queue', calls[c].key)]_vars

\* A batch of two was answered by an array in reverse order whose first
\* element carries an error, and its handler received the array
C5_Witness ==
    /\ last.op = "data"
    /\ last.msg.kind = "arr"
    /\ Len(last.msg.elems) = 2
    /\ last.msg.elems[1].id = last.msg.elems[2].id + 1
    /\ last.msg.elems[1].error = "E1"
    /\ Len(last.fired) = 1
    /\ last.fired[1].whole
    /\ calls[last.fired[1].call].kind = "batch"
    /\ Len(calls[last.fired[1].call].ids) = 2
    /\ calls[last.fired[1].call].invoked = 1

\* The calls the registry q holds handlers of
Registered(q) == {q[k] : k \in DOMAIN q}

\* The calls a sequence of handler invocations names
FiredCalls(f) == {f[i].call : i \in DOMAIN f}

\* C6: with M calls in the registry, the transport's close event (after close())
\* invokes each of the M completions exactly once with the connection-closed
\* error and leaves the registry empty; close() while Disconnected changes
\* nothing: no transport end or destroy, no state change, no handler invoked.
C6_ClosureDrains ==
    [][/\ last'.op = "closeEvent" =>
            /\ queue' = EmptyMap
            /\ status' = 0
            /\ Len(last'.fired) = Cardinality(Registered(queue))
            /\ FiredCalls(last'.fired) = Registered(queue)
            /\ \A i \in DOMAIN last'.fired : last'.fired[i].err = "closed"
            /\ \A c \in DOMAIN calls :
                    calls'[c].invoked = IF c \in Registered(queue) THEN 1 ELSE calls[c].invoked
       /\ (last'.op = "close" /\ status = 0) =>
            /\ last'.transport = <<>>
            /\ last'.fired = <<>>
            /\ UNCHANGED <<id, status, queue, listeners, sock, handshakeOk,
                           closeEvents, calls, wire>>]_vars

\* The close event that followed close() failed two pending calls
C6_Witness ==
    /\ last.op = "closeEvent"
    /\ Len(last.fired) = 2
    /\ last.fired[1].call # last.fired[2].call
    /\ \A c \in DOMAIN calls : calls[c].invoked = 1
    /\ queue = EmptyMap
    /\ status = 0
    /\ sock = "closed"
    /\ handshakeOk

\* The step just taken dispatched a notification: an object without an id that
\* has a method field
IsNotificationStep ==
    /\ IsDataStep
    /\ last'.msg.kind = "obj"
    /\ last'.msg.id = NoId
    /\ last'.msg.method # "absent"

\* C7: an inbound object with no id and a method field is delivered only to the
\* listeners registered for that method name, in registration order, with the
\* message's params; it invokes no completion, leaves the registry, the id
\* counter and the connection state unchanged, and is dropped silently when
\* nobody listens.
C7_NotificationIsolated ==
    [][IsNotificationStep =>
        LET m == last'.msg
        IN  /\ last'.delivered =
                    [i \in 1 .. Len(listeners[m.method]) |->
                        [listener |-> listeners[m.method][i], params |-> m.params]]
            /\ last'.fired = <<>>
            /\ last'.thrown = "none"
            /\ UNCHANGED <<id, status, queue, calls, wire, listeners>>]_vars

\* Supporting C7's finding: for every method name other than 'error', and for
\* 'error' once somebody listens, the notification is isolated as stated.
NotificationIsolatedUnlessError ==
    [][(IsNotificationStep /\ ~EmitThrows(listeners, last'.msg.method)) =>
        LET m == last'.msg
        IN  /\ last'.delivered =
                    [i \in 1 .. Len(listeners[m.method]) |->
                        [listener |-> listeners[m.method][i], params |-> m.params]]
            /\ last'.fired = <<>>
            /\ last'.thrown = "none"
            /\ UNCHANGED <<id, status, queue, calls, wire, listeners>>]_vars

\* C8: with several single requests outstanding, in whatever order their
\* responses arrive, each response completes the call that was issued with
\* its id and no other call, and removes that id from the registry.
C8_ResponseCompletesOwnCall ==
    [][LET m == last'.msg
       IN  (IsDataStep /\ m.kind = "obj" /\ PendingSingle(m.id)) =>
                /\ Len(last'.fired) = 1
                /\ last'.fired[1].call = queue[m.id]
                /\ calls[queue[m.id]].ids = <<m.id>>
                /\ calls'[queue[m.id]].invoked = 1
                /\ OthersUntouched(queue[m.id])
                /\ queue' = MapDelete(queue, m.id)]_vars

\* Two single requests were outstanding together; the response to the second
\* arrived first, the response to the first has just arrived
C8_Witness ==
    /\ Len(calls) = 2
    /\ \A c \in DOMAIN calls : calls[c].kind = "single" /\ calls[c].invoked = 1
    /\ last.op = "data"
    /\ last.msg.kind = "obj"
    /\ last.msg.id = 1
    /\ last.fired # <<>>
    /\ last.fired[1].call = 1
    /\ queue = EmptyMap

\* C9: if a single request is pending under id k, the response {id: k, error: E}
\* fails exactly that call with E, exactly once, and removes entry k; the
\* connection state stays as it was and every other pending call stays in the
\* registry with its completion not invoked.
C9_ErrorFailsOwnCall ==
    [][LET m == last'.msg
       IN  (IsDataStep /\ m.kind = "obj" /\ m.error = "E1" /\ PendingSingle(m.id)) =>
                /\ last'.fired = <<Invocation(queue[m.id], "E1", "absent", FALSE)>>
                /\ calls'[queue[m.id]].invoked = 1
                /\ OthersUntouched(queue[m.id])
                /\ queue' = MapDelete(queue, m.id)
                /\ status' = status]_vars

\* The second of two pending requests was failed by an error response; the
\* first is still pending and the client is still Connected
C9_Witness ==
    /\ last.op = "data"
    /\ last.msg.error = "E1"
    /\ last.msg.id = 2
    /\ last.fired = <<Invocation(2, "E1", "absent", FALSE)>>
    /\ calls[2].invoked = 1
    /\ calls[1].invoked = 0
    /\ Has(queue, 1)
    /\ queue[1] = 1
    /\ status = 1

\* C10: every promise returned by connect() is resolved only after the
\* transport has reported that its handshake succeeded; no connect() issued
\* while an earlier handshake is in progress resolves before it completes.
C10_ResolvedAfterHandshake ==
    (last.op \in {"connect", "connected"} /\ last.result = "resolved") => handshakeOk

\* The document is a response that completes no pending call of the registry q:
\* it is not JSON, or its id is not registered
IsBadDocument(m, q) == m.kind = "bad" \/ Unmatched(m, q)

\* C11: a single bad inbound document (not JSON, or with an id that matches no
\* pending call) does not stop the dispatch loop: the connection state and the
\* other pending calls are unchanged, and the valid response delivered after
\* it still completes its pending call.
C11_BadDocumentIsSurvived ==
    [][(/\ last'.op = "chunk"
        /\ Len(last'.chunk) = 2
        /\ IsBadDocument(last'.chunk[1], queue)
        /\ last'.chunk[2].kind = "obj"
        /\ PendingSingle(last'.chunk[2].id)) =>
            LET k == last'.chunk[2].id
            IN  /\ status' = status
                /\ OthersUntouched(queue[k])
                /\ calls'[queue[k]].invoked = 1
                /\ ~Has(queue', k)]_vars

\* The change of nesting depth a token makes
Delta(h) ==
    IF h \in {Punct("{"), Punct("[")} THEN 1
    ELSE IF h \in {Punct("}"), Punct("]")} THEN -1
    ELSE 0

\* Reading the fields of an object from position i of the text t, at nesting
\* depth d: cur is the field being read (none, or one), acc the fields read.
\* Text after the closing brace, or no closing brace, yields no object.
RECURSIVE ParseFields(_, _, _, _, _)
ParseFields(t, i, d, cur, acc) ==
    IF i > Len(t) THEN <<>>
    ELSE LET h == t[i]
         IN  IF d = 1 /\ h = Punct("}")
             THEN (IF i = Len(t) THEN acc \o cur ELSE <<>>)
             ELSE IF d = 1 /\ h = Punct(",")
             THEN ParseFields(t, i + 1, d, <<>>, acc \o cur)
             ELSE IF d = 1 /\ cur = <<>> /\ h.kind = "string"
                     /\ i < Len(t) /\ t[i + 1] = Punct(":")
             THEN ParseFields(t, i + 2, d, <<[key |-> h.text, value |-> <<>>]>>, acc)
             ELSE ParseFields(t, i + 1, d + Delta(h),
                              IF cur = <<>> THEN cur
                              ELSE <<[cur[1] EXCEPT !.value = Append(@, h)]>>,
                              acc)

\* The fields of the object the text t holds, in the order of the text
ParseObject(t) ==
    IF Len(t) >= 2 /\ t[1] = Punct("{") THEN ParseFields(t, 2, 1, <<>>, <<>>) ELSE <<>>

\* Reading the elements of an array from position i of the text t
RECURSIVE ParseElements(_, _, _, _, _)
ParseElements(t, i, d, cur, acc) ==
    IF i > Len(t) THEN <<>>
    ELSE LET h == t[i]
         IN  IF d = 1 /\ h = Punct("]")
             THEN (IF i # Len(t) THEN <<>>
                   ELSE IF cur = <<>> THEN acc ELSE Append(acc, cur))
             ELSE IF d = 1 /\ h = Punct(",")
             THEN ParseElements(t, i + 1, d, <<>>, Append(acc, cur))
             ELSE ParseElements(t, i + 1, d + Delta(h), Append(cur, h), acc)

\* The texts of the elements of the array the text t holds
ArrayMembers(t) ==
    IF Len(t) >= 2 /\ t[1] = Punct("[") THEN ParseElements(t, 2, 1, <<>>, <<>>) ELSE <<>>

\* The text t is the JSON array of the scalars vs
IsArrayOf(t, vs) ==
    /\ Len(t) >= 2
    /\ t[1] = Punct("[")
    /\ t[Len(t)] = Punct("]")
    /\ ArrayMembers(t) = [i \in DOMAIN vs |-> <<vs[i]>>]

\* The text t is one object with the keys jsonrpc, method, params, id in this
\* order, holding "2.0", the method, the params and the id k
IsRequestText(t, method, params, k) ==
    LET fs == ParseObject(t)
    IN  /\ [i \in DOMAIN fs |-> fs[i].key] = <<"jsonrpc", "method", "params", "id">>
        /\ fs[1].value = <<Str("2.0")>>
        /\ fs[2].value = <<Str(method)>>
        /\ IsArrayOf(fs[3].value, params)
        /\ fs[4].value = <<Num(k)>>

\* The text t ends with a line feed and holds no other
EndsWithOneNewline(t) ==
    /\ Len(t) >= 1
    /\ {i \in DOMAIN t : t[i] = Newline} = {Len(t)}

\* C12: makeRequest(method, params, id) yields one JSON object whose keys are
\* jsonrpc, method, params, id in this order, with jsonrpc "2.0" and the other
\* fields equal to the arguments; request writes exactly this text followed by
\* a single newline, and requestBatch writes the array of these texts, one per
\* parameter with the ids after the counter, followed by a single newline.
C12_RequestTextOnWire ==
    LET t == last.sent
        a == last.args
        ids == calls[Len(calls)].ids
    IN  /\ (last.op = "request" /\ last.result = "pending") =>
            /\ EndsWithOneNewline(t)
            /\ Len(ids) = 1
            /\ IsRequestText(SubSeq(t, 1, Len(t) - 1), a.method, a.params, ids[1])
        /\ (last.op = "requestBatch" /\ last.result = "pending") =>
            LET ms == ArrayMembers(SubSeq(t, 1, Len(t) - 1))
            IN  /\ EndsWithOneNewline(t)
                /\ t[1] = Punct("[")
                /\ t[Len(t) - 1] = Punct("]")
                /\ Len(ms) = Len(a.params)
                /\ Len(ids) = Len(a.params)
                /\ \A i \in DOMAIN ms :
                        IsRequestText(ms[i], a.method,
                                      IF a.secondParam \in {NoParam, Lit("null")}
                                      THEN <<a.params[i]>>
                                      ELSE <<a.params[i], a.secondParam>>,
                                      ids[i])

\* A batch of two different parameters and a second parameter was written
C12_Witness ==
    /\ last.op = "requestBatch"
    /\ last.result = "pending"
    /\ Len(last.args.params) = 2
    /\ last.args.params[1] # last.args.params[2]
    /\ last.args.secondParam = Num(1)
    /\ Len(last.sent) > 30
    /\ id = 2

\* C13: connect() called while Disconnected sets the state to Connected before
\* the handshake completes, so a request or requestBatch issued between that
\* connect() and the completion of the handshake is not rejected: it takes its
\* ids, registers a pending call and writes to the transport.
C13_AcceptedDuringHandshake ==
    [][/\ (last'.op = "connect" /\ status = 0) =>
            /\ status' = 1
            /\ sock' = "connecting"
            /\ ~handshakeOk'
       /\ (IsRequestStep /\ status = 1 /\ sock = "connecting") =>
            LET c == Len(calls) + 1
            IN  /\ last'.result = "pending"
                /\ id' = id + last'.n
                /\ Len(calls') = c
                /\ calls'[c].invoked = 0
                /\ Has(queue', calls'[c].key)
                /\ queue'[calls'[c].key] = c
                /\ last'.transport = <<"write">>
                /\ Len(wire') = Len(wire) + 1
                /\ wire'[Len(wire')].ids = calls'[c].ids]_vars

\* A request was accepted while the first handshake was still in progress
C13_Witness ==
    /\ last.op = "request"
    /\ last.result = "pending"
    /\ sock = "connecting"
    /\ ~handshakeOk
    /\ status = 1
    /\ id = 1
    /\ Has(queue, 1)
    /\ wire = <<[batch |-> FALSE, ids |-> <<1>>]>>

\* C14: a transport error event invokes the configured error callback with the
\* error and changes nothing else: the connection state, the id counter and
\* the registry are unchanged and no pending call is completed; so too when
\* the error occurs during a connect handshake, after which the state is still
\* Connected until a close event arrives.
C14_ErrorOnlyReported ==
    [][/\ last'.op = "error" =>
            /\ last'.hook
            /\ last'.fired = <<>>
            /\ UNCHANGED <<status, id, queue, calls, wire, listeners>>
            /\ (sock = "connecting" /\ status = 1) => status' = 1
       /\ (status = 1 /\ status' = 0) => last'.op \in {"close", "closeEvent"}]_vars

\* The handshake failed with a call pending: the connect promise was rejected,
\* the call is still registered and the state is still Connected
C14_Witness ==
    /\ last.op = "error"
    /\ last.result = "rejected"
    /\ last.hook
    /\ status = 1
    /\ sock = "closed"
    /\ closeEvents = 1
    /\ queue # EmptyMap
    /\ \A c \in DOMAIN calls : calls[c].invoked = 0

\* C15: close() called while Connected ends and then destroys the transport
\* and sets the state to Disconnected at once, but leaves the registry and the
\* id counter unchanged and invokes no completion handler; pending calls are
\* failed with the connection-closed error only by the close event.
C15_CloseDoesNotDrain ==
    [][/\ (last'.op = "close" /\ status = 1) =>
            /\ last'.transport = <<"end", "destroy">>
            /\ status' = 0
            /\ last'.fired = <<>>
            /\ UNCHANGED <<id, queue, calls, wire>>
       /\ (\E i \in DOMAIN last'.fired : last'.fired[i].err = "closed") =>
            last'.op = "closeEvent"
       /\ (\E c \in DOMAIN calls : calls'[c].invoked # calls[c].invoked) =>
            last'.op \in {"closeEvent", "data"}]_vars

\* close() was called with two calls pending: the state is Disconnected, the
\* close event is still to come and both calls are still registered
C15_Witness ==
    /\ last.op = "close"
    /\ last.transport = <<"end", "destroy">>
    /\ status = 0
    /\ closeEvents = 1
    /\ Cardinality(Registered(queue)) = 2
    /\ \A c \in DOMAIN calls : calls[c].invoked = 0

\* C16: a pending call leaves the registry only together with the invocation
\* of its own completion: whenever an inbound message or the close event
\* removes an entry, the completion of that entry's call is invoked by the
\* same step, also when one inbound array holds the ids of several entries.
C16_RemovedOnlyWithCompletion ==
    [][(last'.op \in {"data", "closeEvent"}) =>
            \A k \in DOMAIN queue :
                ~Has(queue', k) =>
                    /\ queue[k] \in FiredCalls(last'.fired)
                    /\ calls'[queue[k]].invoked = calls[queue[k]].invoked + 1]_vars

\* The registered keys among the ids the elements of the array m carry
MatchedKeys(m, q) == {k \in ElemIds(m) \cap DOMAIN q : k >= 1}

\* C17: every inbound array is treated as a batch response and all of its
\* elements are scanned: if an element at any position carries an id that is
\* a registered key, the handler is located and invoked with the entire
\* array, also when the first element has no id (or the id 0 or null) and
\* when the first element is not the matching one.
C17_EveryArrayScanned ==
    [][(/\ IsDataStep
        /\ last'.msg.kind = "arr"
        /\ MatchedKeys(last'.msg, queue) # {}) =>
            /\ last'.thrown = "none"
            /\ Len(last'.fired) = 1
            /\ last'.fired[1].whole
            /\ last'.fired[1].call \in {queue[k] : k \in MatchedKeys(last'.msg, queue)}]_vars

\* C18: every promise returned by an accepted request or requestBatch is
\* eventually settled, provided the transport delivers its close event: once a
\* call is accepted and a close event is due, the call's completion is
\* eventually invoked, whatever requests, batches (of any length, zero
\* included) and inbound messages there were.
C18_EveryCallSettled ==
    \A c \in 1 .. MaxCalls :
        [](  (c \in DOMAIN calls /\ closeEvents > 0)
          => <>(c \in DOMAIN calls /\ calls[c].invoked > 0))

\* C19: every registration made by request or requestBatch uses a key that is
\* not in the registry at that moment, so no registration replaces the handler
\* of a call that is still pending, for every batch length, zero included.
C19_RegistrationUsesFreshKey ==
    [][(IsRequestStep /\ last'.result = "pending") =>
            LET c == Len(calls) + 1
            IN  /\ ~Has(queue, calls'[c].key)
                /\ \A k \in DOMAIN queue : Has(queue', k) /\ queue'[k] = queue[k]]_vars

\* C20: after close() followed by connect(), the close event of the earlier
\* connection, delivered only after that connect(), neither sets the state
\* back to Disconnected nor fails a call that was registered after the
\* reconnect.  A close event delivered while the current session is live
\* belongs to an earlier session; the call accepted by the step before it was
\* registered in the current one.
C20_StaleCloseIsIgnored ==
    [][(/\ last'.op = "closeEvent"
        /\ Live(sock)
        /\ status = 1
        /\ IsAcceptedCall(last)) =>
            /\ status' = 1
            /\ calls'[Len(calls)].invoked = calls[Len(calls)].invoked
            /\ Has(queue', calls[Len(calls)].key)]_vars

====
